---- MODULE Spec2Model ----
(***************************************************************************)
(* Model of the fraud scoring service of src/api/main.py: the feature      *)
(* contract check (preprocess_input), the decision policy (make_decision), *)
(* the audit logger (log_transaction) and the /predict handler             *)
(* (predict_fraud), run by several request threads over one log file.      *)
(*                                                                         *)
(* Probabilities are fixed-point integers in units of 10^-7, so that the   *)
(* thresholds 0.90 and 0.993 and the rounding to 6 decimals are exact.     *)
(***************************************************************************)
EXTENDS Integers, Sequences, FiniteSets, TLC

VARIABLES
    pc,                 \* per request: position in predict_fraud / log_transaction
    features,           \* per request: transaction.features, an ordered mapping
    X,                  \* per request: the frame preprocess_input returned
    fraud_probability,  \* per request: model.predict_proba(X)[0, 1]
    decision,           \* per request: make_decision(fraud_probability)
    write_header,       \* per request: log_transaction's local write_header
    f,                  \* per request: the rows buffered in the open file object f
    response,           \* per request: the value predict_fraud returned
    log_exists,         \* LOG_FILE.exists()
    log,                \* the rows of LOG_FILE, in file order
    clock,              \* the latest instant datetime.now() returned, 0 before the first
    arg,                \* argument of a direct call of a pure function
    ret,                \* result of a direct call of a pure function
    service,            \* the module's start-up: position, artifacts, what was loaded
    health,             \* the value of a /health call not yet delivered
    scorer_calls        \* per request: how often model.predict_proba was invoked

vars == <<pc, features, X, fraud_probability, decision, write_header, f,
          response, log_exists, log, clock, arg, ret, service, health, scorer_calls>>

----------------------------------------------------------------------------
(* Bounds *)

\* concurrent /predict requests
NumReqs == 2
\* sequential /predict calls
NumSeqReqs == 3

----------------------------------------------------------------------------
(* Configuration loaded at start-up *)

\* the feature schema read from feature_list.json
FEATURE_LIST == <<"A", "B">>

\* 0.90 in units of 10^-7
REVIEW_THRESHOLD == 9000000
\* 0.993 in units of 10^-7
BLOCK_THRESHOLD == 9930000

\* feature names a client may send, and the values it may give them
Names == {"A", "B", "C"}
Values == {1, 2}

\* an input mapping is a dict: distinct keys, in the order the client gave them
Inputs ==
    {s \in UNION {[1..n -> Names \X Values] : n \in 0..Cardinality(Names)} :
        \A i, j \in DOMAIN s : i # j => s[i][1] # s[j][1]}

\* the mappings sent to /predict: every key set in every order; the score is
\* drawn independently of the values, so one value per key is enough there
RequestInputs == {s \in Inputs : \A i \in DOMAIN s : s[i][2] = 1}

\* scores the opaque model may return inside a request (none is a rounding tie)
Probs == {5000000, 9000000, 9929996, 9930000}

\* scores make_decision is called on directly
ProbsFn == Probs \cup {0, 8999996, 8999999, 9000001, 9500000, 9929999, 9930001, 10000000}

Decisions == {"ALLOW", "REVIEW", "BLOCK"}

NoValue == <<>>
NoProb == 0 - 1
NoDecision == "none"

----------------------------------------------------------------------------
(* Pure functions *)

SeqToSet(s) == {s[i] : i \in DOMAIN s}
Keys(m) == {m[i][1] : i \in DOMAIN m}
Lookup(m, k) == m[CHOOSE i \in DOMAIN m : m[i][1] = k][2]

\* round(float(p), 6): to the nearest multiple of 10^-6
Round6(p) == ((p + 5) \div 10) * 10

\* bug: the two checks in the other order
preprocess_input_extra_first(fs) ==
    LET missing == SeqToSet(FEATURE_LIST) \ Keys(fs)
        extra == Keys(fs) \ SeqToSet(FEATURE_LIST)
    IN  IF extra # {}
        THEN [ok |-> FALSE, error |-> [msg |-> "Unexpected features", names |-> extra]]
        ELSE IF missing # {}
        THEN [ok |-> FALSE, error |-> [msg |-> "Missing features", names |-> missing]]
        ELSE [ok |-> TRUE, X |-> [i \in DOMAIN FEATURE_LIST |-> Lookup(fs, FEATURE_LIST[i])]]

\* bug: the frame is returned as it came, without df[FEATURE_LIST]
preprocess_input_unordered(fs) ==
    LET missing == SeqToSet(FEATURE_LIST) \ Keys(fs)
        extra == Keys(fs) \ SeqToSet(FEATURE_LIST)
    IN  IF missing # {}
        THEN [ok |-> FALSE, error |-> [msg |-> "Missing features", names |-> missing]]
        ELSE IF extra # {}
        THEN [ok |-> FALSE, error |-> [msg |-> "Unexpected features", names |-> extra]]
        ELSE [ok |-> TRUE, X |-> [i \in DOMAIN fs |-> fs[i][2]]]

\* bug: the missing set is computed against the wrong operand
preprocess_input_wrong_missing(fs) ==
    LET missing == SeqToSet(FEATURE_LIST)
        extra == Keys(fs) \ SeqToSet(FEATURE_LIST)
    IN  IF SeqToSet(FEATURE_LIST) \ Keys(fs) # {}
        THEN [ok |-> FALSE, error |-> [msg |-> "Missing features", names |-> missing]]
        ELSE IF extra # {}
        THEN [ok |-> FALSE, error |-> [msg |-> "Unexpected features", names |-> extra]]
        ELSE [ok |-> TRUE, X |-> [i \in DOMAIN FEATURE_LIST |-> Lookup(fs, FEATURE_LIST[i])]]

\* preprocess_input: the raised ValueError, or the frame in schema order
preprocess_input(fs) ==
    LET missing == SeqToSet(FEATURE_LIST) \ Keys(fs)
        extra == Keys(fs) \ SeqToSet(FEATURE_LIST)
    IN  IF missing # {}
        THEN [ok |-> FALSE, error |-> [msg |-> "Missing features", names |-> missing]]
        ELSE IF extra # {}
        THEN [ok |-> FALSE, error |-> [msg |-> "Unexpected features", names |-> extra]]
        ELSE [ok |-> TRUE, X |-> [i \in DOMAIN FEATURE_LIST |-> Lookup(fs, FEATURE_LIST[i])]]

\* bug: strict comparisons, a score on a threshold falls into the lower bucket
make_decision_strict(probability) ==
    IF probability > BLOCK_THRESHOLD THEN "BLOCK"
    ELSE IF probability > REVIEW_THRESHOLD THEN "REVIEW"
    ELSE "ALLOW"

\* bug: the score is rounded before it is compared
make_decision_rounded(probability) ==
    IF Round6(probability) >= BLOCK_THRESHOLD THEN "BLOCK"
    ELSE IF Round6(probability) >= REVIEW_THRESHOLD THEN "REVIEW"
    ELSE "ALLOW"

make_decision(probability) ==
    IF probability >= BLOCK_THRESHOLD THEN "BLOCK"
    ELSE IF probability >= REVIEW_THRESHOLD THEN "REVIEW"
    ELSE "ALLOW"

----------------------------------------------------------------------------
(* The log file *)

\* rows carry the request that wrote them (by), which the file does not hold
HeaderRow(r) ==
    [kind |-> "header", timestamp |-> 0, fraud_probability |-> 0,
     decision |-> "decision", by |-> r]
\* bug: the probability is written as it is, without round(..., 6)
DataRowUnrounded(r, ts, p, d) ==
    [kind |-> "data", timestamp |-> ts, fraud_probability |-> p,
     decision |-> d, by |-> r]

DataRow(r, ts, p, d) ==
    [kind |-> "data", timestamp |-> ts, fraud_probability |-> Round6(p),
     decision |-> d, by |-> r]

IsHeader(row) == row.kind = "header"
IsData(row) == row.kind = "data"
DataRows(rows) == SelectSeq(rows, IsData)
HeaderRows(rows) == SelectSeq(rows, IsHeader)
RowsBy(rows, r) == SelectSeq(rows, LAMBDA row : row.by = r)

\* bug: mode "w" instead of "a": opening truncates the file
OpenTruncate(rows) == <<>>

\* open(LOG_FILE, "a"): the content of the file once it is open
OpenAppend(rows) == rows

\* the two writerow calls, into the buffer of f
WriteRows(r, header, ts, p, d) ==
    (IF header THEN <<HeaderRow(r)>> ELSE <<>>) \o <<DataRow(r, ts, p, d)>>

----------------------------------------------------------------------------
(* Requests *)

Reqs == DOMAIN pc
Terminal == {"RESPONDED", "FAILED"}

InitWith(reqs) ==
    /\ pc = [r \in reqs |-> "idle"]
    /\ features = [r \in reqs |-> NoValue]
    /\ X = [r \in reqs |-> NoValue]
    /\ fraud_probability = [r \in reqs |-> NoProb]
    /\ decision = [r \in reqs |-> NoDecision]
    /\ write_header = [r \in reqs |-> FALSE]
    /\ f = [r \in reqs |-> <<>>]
    /\ response = [r \in reqs |-> NoValue]
    /\ log_exists = FALSE
    /\ log = <<>>
    /\ clock = 0
    /\ scorer_calls = [r \in reqs |-> 0]

\* the module was imported: both artifacts were loaded and the app serves
Serving ==
    [pc |-> "serving", model_file |-> TRUE, feature_file |-> TRUE,
     model |-> TRUE, features |-> TRUE]

Init ==
    /\ InitWith(1..NumReqs)
    /\ arg = NoValue
    /\ ret = [fn |-> "none"]
    /\ service = Serving
    /\ health = NoValue

\* bug: the record is written in a finally block, for failed requests too
ExceptLogged(r, e) ==
    /\ pc' = [pc EXCEPT ![r] = "FAILED"]
    /\ response' = [response EXCEPT ![r] = [error |-> e]]
    /\ log' = log \o <<DataRow(r, clock, 0, "ALLOW")>>
    /\ log_exists' = TRUE

\* bug: a failed request answers with a default decision
ExceptDefault(r, e) ==
    /\ pc' = [pc EXCEPT ![r] = "FAILED"]
    /\ response' = [response EXCEPT ![r] =
            [fraud_probability |-> 0, decision |-> "ALLOW"]]
    /\ UNCHANGED <<log, log_exists>>

\* bug: the handler puts the failed request back at its start
ExceptRetry(r, e) ==
    /\ pc' = [pc EXCEPT ![r] = "RECEIVED"]
    /\ UNCHANGED <<response, log, log_exists>>

\* except Exception as e: return {"error": str(e)}
Except(r, e) ==
    /\ pc' = [pc EXCEPT ![r] = "FAILED"]
    /\ response' = [response EXCEPT ![r] = [error |-> e]]
    /\ UNCHANGED <<log, log_exists>>

\* a request arrives; requests are numbered in the order they arrive
Receive(r) ==
    /\ service.pc = "serving"
    /\ pc[r] = "idle"
    /\ \A q \in Reqs : q < r => pc[q] # "idle"
    /\ \E fs \in RequestInputs : features' = [features EXCEPT ![r] = fs]
    /\ pc' = [pc EXCEPT ![r] = "RECEIVED"]
    /\ UNCHANGED <<X, fraud_probability, decision, write_header, f, response,
                   log_exists, log, clock, arg, ret, service, health, scorer_calls>>

\* X = preprocess_input(transaction.features)
Validate(r) ==
    /\ pc[r] = "RECEIVED"
    /\ LET res == preprocess_input(features[r])
       IN  IF res.ok
           THEN /\ X' = [X EXCEPT ![r] = res.X]
                /\ pc' = [pc EXCEPT ![r] = "VALIDATED"]
                /\ UNCHANGED <<response, log, log_exists>>
           ELSE /\ Except(r, res.error)
                /\ UNCHANGED X
    \* the argument is not read again
    /\ features' = [features EXCEPT ![r] = NoValue]
    /\ UNCHANGED <<fraud_probability, decision, write_header, f, clock,
                   arg, ret, service, health, scorer_calls>>

\* bug: a failed scorer call is tried again
ScoreRetry(r) ==
    /\ pc[r] = "VALIDATED"
    /\ \/ /\ \E p \in Probs :
                fraud_probability' = [fraud_probability EXCEPT ![r] = p]
          /\ pc' = [pc EXCEPT ![r] = "SCORED"]
          /\ X' = [X EXCEPT ![r] = NoValue]
       \/ UNCHANGED <<fraud_probability, pc, X>>
    /\ scorer_calls' = [scorer_calls EXCEPT ![r] = @ + 1]
    /\ UNCHANGED <<features, decision, write_header, f, clock, arg, ret,
                   service, health, response, log, log_exists>>

\* fraud_probability = model.predict_proba(X)[0, 1]: any score, or an exception
Score(r) ==
    /\ pc[r] = "VALIDATED"
    /\ \/ /\ \E p \in Probs :
                fraud_probability' = [fraud_probability EXCEPT ![r] = p]
          /\ pc' = [pc EXCEPT ![r] = "SCORED"]
          /\ UNCHANGED <<response, log, log_exists>>
       \/ /\ Except(r, [msg |-> "ScoringFailure", names |-> {}])
          /\ UNCHANGED fraud_probability
    /\ scorer_calls' = [scorer_calls EXCEPT ![r] = @ + 1]
    \* the frame is not read again
    /\ X' = [X EXCEPT ![r] = NoValue]
    /\ UNCHANGED <<features, decision, write_header, f, clock, arg, ret,
                   service, health>>

\* decision = make_decision(fraud_probability)
Decide(r) ==
    /\ pc[r] = "SCORED"
    /\ decision' = [decision EXCEPT ![r] = make_decision(fraud_probability[r])]
    /\ pc' = [pc EXCEPT ![r] = "DECIDED"]
    /\ UNCHANGED <<features, X, fraud_probability, write_header, f, response,
                   log_exists, log, clock, arg, ret, service, health, scorer_calls>>

\* log_transaction: write_header = not LOG_FILE.exists()
LogExists(r) ==
    /\ pc[r] = "DECIDED"
    /\ write_header' = [write_header EXCEPT ![r] = ~log_exists]
    /\ pc' = [pc EXCEPT ![r] = "log_open"]
    /\ UNCHANGED <<features, X, fraud_probability, decision, f, response,
                   log_exists, log, clock, arg, ret, service, health, scorer_calls>>

\* log_transaction: open(LOG_FILE, "a") creates the file, or raises OSError
LogOpen(r) ==
    /\ pc[r] = "log_open"
    /\ \/ /\ log_exists' = TRUE
          /\ log' = OpenAppend(log)
          /\ pc' = [pc EXCEPT ![r] = "log_write"]
          /\ UNCHANGED response
       \/ Except(r, [msg |-> "PersistenceError", names |-> {}])
    /\ UNCHANGED <<features, X, fraud_probability, decision, write_header, f,
                   clock, arg, ret, service, health, scorer_calls>>

\* log_transaction: the writerow calls fill the buffer of f; datetime.now()
\* reads a clock that never goes backwards. Only the order of the instants
\* matters, so they are numbered from 1 as they are first read: a read gives
\* the latest instant read so far, or the next one
LogWrite(r) ==
    /\ pc[r] = "log_write"
    /\ \E ts \in {clock, clock + 1} \ {0} :
          /\ clock' = ts
          /\ f' = [f EXCEPT ![r] =
                WriteRows(r, write_header[r], ts, fraud_probability[r], decision[r])]
    /\ pc' = [pc EXCEPT ![r] = "log_close"]
    /\ UNCHANGED <<features, X, fraud_probability, decision, write_header,
                   response, log_exists, log, arg, ret, service, health, scorer_calls>>

\* log_transaction: leaving the with block closes f, which writes the buffer
\* to the end of the file in one append, or raises OSError (disk full)
LogClose(r) ==
    /\ pc[r] = "log_close"
    /\ \/ /\ log' = log \o f[r]
          /\ pc' = [pc EXCEPT ![r] = "LOGGED"]
          /\ UNCHANGED <<response, log_exists>>
       \/ Except(r, [msg |-> "PersistenceError", names |-> {}])
    /\ f' = [f EXCEPT ![r] = <<>>]
    /\ UNCHANGED <<features, X, fraud_probability, decision, write_header,
                   clock, arg, ret, service, health, scorer_calls>>

\* bug: the response is returned before log_transaction is called
RespondEarly(r) ==
    /\ pc[r] = "DECIDED"
    /\ response' = [response EXCEPT ![r] =
            [fraud_probability |-> Round6(fraud_probability[r]),
             decision |-> decision[r]]]
    /\ pc' = [pc EXCEPT ![r] = "RESPONDED"]
    /\ UNCHANGED <<features, X, fraud_probability, decision, write_header, f,
                   log_exists, log, clock, arg, ret, service, health, scorer_calls>>

\* return {"fraud_probability": round(float(fraud_probability), 6), "decision": decision}
Respond(r) ==
    /\ pc[r] = "LOGGED"
    /\ response' = [response EXCEPT ![r] =
            [fraud_probability |-> Round6(fraud_probability[r]),
             decision |-> decision[r]]]
    /\ pc' = [pc EXCEPT ![r] = "RESPONDED"]
    /\ UNCHANGED <<features, X, fraud_probability, decision, write_header, f,
                   log_exists, log, clock, arg, ret, service, health, scorer_calls>>

Next ==
    \E r \in Reqs :
        \/ Receive(r)
        \/ Validate(r)
        \/ Score(r)
        \/ Decide(r)
        \/ LogExists(r)
        \/ LogOpen(r)
        \/ LogWrite(r)
        \/ LogClose(r)
        \/ Respond(r)

\* requests served concurrently by the worker threads
Spec == Init /\ [][Next]_vars

\* the steps of request r once it has arrived
Step(r) ==
    \/ Validate(r)
    \/ Score(r)
    \/ Decide(r)
    \/ LogExists(r)
    \/ LogOpen(r)
    \/ LogWrite(r)
    \/ LogClose(r)
    \/ Respond(r)

\* each request runs in a thread of its own, which the scheduler keeps running
FairSpec == Spec /\ \A r \in 1..NumReqs : WF_vars(Step(r))

----------------------------------------------------------------------------
(* Sequential callers: a call starts only when every earlier one has returned *)

SeqInit ==
    /\ InitWith(1..NumSeqReqs)
    /\ arg = NoValue
    /\ ret = [fn |-> "none"]
    /\ service = Serving
    /\ health = NoValue

SeqReceive(r) ==
    /\ \A q \in Reqs : pc[q] \in Terminal \cup {"idle"}
    /\ Receive(r)

SeqNext ==
    \E r \in Reqs :
        \/ SeqReceive(r)
        \/ Validate(r)
        \/ Score(r)
        \/ Decide(r)
        \/ LogExists(r)
        \/ LogOpen(r)
        \/ LogWrite(r)
        \/ LogClose(r)
        \/ Respond(r)

SeqSpec == SeqInit /\ [][SeqNext]_vars

----------------------------------------------------------------------------
(* Direct calls of the pure functions *)

FnInit ==
    /\ InitWith({})
    /\ arg \in [features : Inputs, probability : ProbsFn]
    /\ ret = [fn |-> "none"]
    /\ service = Serving
    /\ health = NoValue

CallPreprocess ==
    /\ ret.fn = "none"
    /\ ret' = [fn |-> "preprocess_input", val |-> preprocess_input(arg.features)]
    /\ UNCHANGED <<pc, features, X, fraud_probability, decision, write_header, f,
                   response, log_exists, log, clock, arg, service, health, scorer_calls>>

CallDecision ==
    /\ ret.fn = "none"
    /\ ret' = [fn |-> "make_decision", val |-> make_decision(arg.probability)]
    /\ UNCHANGED <<pc, features, X, fraud_probability, decision, write_header, f,
                   response, log_exists, log, clock, arg, service, health, scorer_calls>>

FnNext == CallPreprocess \/ CallDecision

FnSpec == FnInit /\ [][FnNext]_vars

----------------------------------------------------------------------------
(* Start-up of the module and the /health operation *)

\* one unit of probability, 1.0, in units of 10^-7
One == 10 ^ 7

\* the import begins; either artifact may be readable or not
StartInit ==
    /\ InitWith(1..NumSeqReqs)
    /\ arg = NoValue
    /\ ret = [fn |-> "none"]
    /\ service \in [pc : {"load_model"}, model_file : BOOLEAN,
                    feature_file : BOOLEAN, model : {FALSE}, features : {FALSE}]
    /\ health = NoValue

\* bug: the load is wrapped in a try block that swallows the exception
LoadModelSwallowed ==
    /\ service.pc = "load_model"
    /\ service' = [service EXCEPT !.model = service.model_file,
                                  !.pc = "load_features"]
    /\ UNCHANGED <<pc, features, X, fraud_probability, decision, write_header, f,
                   response, log_exists, log, clock, arg, ret, health, scorer_calls>>

\* model = joblib.load(MODEL_PATH): an exception ends the import
LoadModel ==
    /\ service.pc = "load_model"
    /\ service' = IF service.model_file
                  THEN [service EXCEPT !.model = TRUE, !.pc = "load_features"]
                  ELSE [service EXCEPT !.pc = "aborted"]
    /\ UNCHANGED <<pc, features, X, fraud_probability, decision, write_header, f,
                   response, log_exists, log, clock, arg, ret, health, scorer_calls>>

\* with open(FEATURE_PATH) as f: FEATURE_LIST = json.load(f)
LoadFeatures ==
    /\ service.pc = "load_features"
    /\ service' = IF service.feature_file
                  THEN [service EXCEPT !.features = TRUE, !.pc = "thresholds"]
                  ELSE [service EXCEPT !.pc = "aborted"]
    /\ UNCHANGED <<pc, features, X, fraud_probability, decision, write_header, f,
                   response, log_exists, log, clock, arg, ret, health, scorer_calls>>

\* the thresholds are assigned, the routes are registered, the import ends
StartServing ==
    /\ service.pc = "thresholds"
    /\ service' = [service EXCEPT !.pc = "serving"]
    /\ UNCHANGED <<pc, features, X, fraud_probability, decision, write_header, f,
                   response, log_exists, log, clock, arg, ret, health, scorer_calls>>

\* the dict /health returns
HealthResponse ==
    [status |-> "OK", model_loaded |-> TRUE,
     review_threshold |-> REVIEW_THRESHOLD, block_threshold |-> BLOCK_THRESHOLD]

\* bug: the probe leaves a row in the audit log
HealthLogged ==
    /\ service.pc = "serving"
    /\ health = <<>>
    /\ health' = <<HealthResponse>>
    /\ log' = log \o <<DataRow(0, clock, 0, "ALLOW")>>
    /\ UNCHANGED <<pc, features, X, fraud_probability, decision, write_header, f,
                   response, log_exists, clock, arg, ret, service, scorer_calls>>

\* GET /health
Health ==
    /\ service.pc = "serving"
    /\ health = <<>>
    /\ health' = <<HealthResponse>>
    /\ UNCHANGED <<pc, features, X, fraud_probability, decision, write_header, f,
                   response, log_exists, log, clock, arg, ret, service, scorer_calls>>

\* the response of /health is delivered to the caller
HealthReturn ==
    /\ health # <<>>
    /\ health' = <<>>
    /\ UNCHANGED <<pc, features, X, fraud_probability, decision, write_header, f,
                   response, log_exists, log, clock, arg, ret, service, scorer_calls>>

ServiceNext ==
    \/ LoadModel
    \/ LoadFeatures
    \/ StartServing
    \/ Health
    \/ HealthReturn
    \/ SeqNext

\* the service from its import on: sequential /predict calls, with /health
\* probes at any point of them
ServiceSpec == StartInit /\ [][ServiceNext]_vars

----------------------------------------------------------------------------
(* Claims about the pure functions, checked under FnSpec *)

Schema == SeqToSet(FEATURE_LIST)
Validated == ret.fn = "preprocess_input"
MissingOf(fs) == Schema \ Keys(fs)
ExtraOf(fs) == Keys(fs) \ Schema

\* C3: make_decision(p) is BLOCK iff p >= block_threshold, REVIEW iff
\* review_threshold <= p < block_threshold, and ALLOW iff p < review_threshold,
\* so a score equal to a threshold gets the more severe decision.
C3_DecisionBuckets ==
    ret.fn = "make_decision" =>
        LET p == arg.probability
            d == ret.val
        IN  /\ d \in Decisions
            /\ d = "BLOCK" <=> p >= BLOCK_THRESHOLD
            /\ d = "REVIEW" <=> (REVIEW_THRESHOLD <= p /\ p < BLOCK_THRESHOLD)
            /\ d = "ALLOW" <=> p < REVIEW_THRESHOLD

\* a score exactly on the block threshold was decided
C3_Witness ==
    /\ ret.fn = "make_decision"
    /\ arg.probability = BLOCK_THRESHOLD
    /\ ret.val = "BLOCK"

\* C6 as stated: every input with a key outside the schema, whether or not it
\* also lacks schema keys, fails with Unexpected features naming exactly
\* input_keys minus schema_names.
C6_UnexpectedAlways ==
    (Validated /\ ExtraOf(arg.features) # {}) =>
        /\ ~ret.val.ok
        /\ ret.val.error.msg = "Unexpected features"
        /\ ret.val.error.names = ExtraOf(arg.features)

\* C6 amended: an input with a key outside the schema always fails; it fails
\* with Unexpected features naming exactly input_keys minus schema_names when
\* it lacks no schema key, and with Missing features naming exactly the
\* missing names when it also lacks one.
C6_UnexpectedWhenComplete ==
    (Validated /\ ExtraOf(arg.features) # {}) =>
        /\ ~ret.val.ok
        /\ MissingOf(arg.features) = {} =>
              /\ ret.val.error.msg = "Unexpected features"
              /\ ret.val.error.names = ExtraOf(arg.features)
        /\ MissingOf(arg.features) # {} =>
              /\ ret.val.error.msg = "Missing features"
              /\ ret.val.error.names = MissingOf(arg.features)

\* an input holding the whole schema and a further key was rejected
C6_Witness ==
    /\ Validated
    /\ Keys(arg.features) = Schema \cup {"C"}
    /\ ~ret.val.ok
    /\ ret.val.error.names = {"C"}

\* C7: every input that lacks a schema key fails with Missing features naming
\* exactly schema_names minus input_keys.
C7_MissingReported ==
    (Validated /\ MissingOf(arg.features) # {}) =>
        /\ ~ret.val.ok
        /\ ret.val.error.msg = "Missing features"
        /\ ret.val.error.names = MissingOf(arg.features)

\* an input that lacks B and holds the extra key C was rejected for B alone
C7_Witness ==
    /\ Validated
    /\ Keys(arg.features) = {"A", "C"}
    /\ ~ret.val.ok
    /\ ret.val.error.names = {"B"}

\* C8: an input whose key set equals the schema is accepted in whatever key
\* order it arrives, and position i of the result holds the input value of
\* the i-th schema name.
C8_SchemaOrder ==
    (Validated /\ Keys(arg.features) = Schema) =>
        /\ ret.val.ok
        /\ DOMAIN ret.val.X = DOMAIN FEATURE_LIST
        /\ \A i \in DOMAIN FEATURE_LIST :
              \E j \in DOMAIN arg.features :
                  arg.features[j] = <<FEATURE_LIST[i], ret.val.X[i]>>

\* an input given in the order B, A with different values was reordered
C8_Witness ==
    /\ Validated
    /\ arg.features = <<<<"B", 2>>, <<"A", 1>>>>
    /\ ret.val.ok
    /\ ret.val.X = <<1, 2>>

----------------------------------------------------------------------------
(* Claims about the requests and the log *)

Quiescent == \A r \in Reqs : pc[r] \in Terminal \cup {"idle"}
Decided(r) == decision[r] # NoDecision
\* the append of r raised: r failed after its decision was made
AppendFailed(r) == pc[r] = "FAILED" /\ Decided(r)
\* the calls in arrival order, and those of them that returned a success response
Calls == [i \in 1..Cardinality({r \in Reqs : pc[r] # "idle"}) |-> i]
SuccessfulCalls == SelectSeq(Calls, LAMBDA r : pc[r] = "RESPONDED")
IsSuccess(resp) == DOMAIN resp = {"fraud_probability", "decision"}
IsError(resp) == DOMAIN resp = {"error"}

\* C1: under sequential calls starting without a log file, once N >= 1 calls
\* have returned a success response (failing calls mixed in anywhere), the log
\* is one header row followed by exactly N data rows, the i-th data row being
\* the record of the i-th successful call.
C1_HeaderThenRowsInCallOrder ==
    (Quiescent /\ Len(SuccessfulCalls) >= 1) =>
        /\ Len(log) = Len(SuccessfulCalls) + 1
        /\ IsHeader(log[1])
        /\ \A i \in 1..Len(SuccessfulCalls) :
              /\ IsData(log[i + 1])
              /\ log[i + 1].by = SuccessfulCalls[i]
              /\ log[i + 1].decision = response[SuccessfulCalls[i]].decision
              /\ log[i + 1].fraud_probability =
                    response[SuccessfulCalls[i]].fraud_probability

\* C2: a request that was validated, scored and decided and whose append
\* raised still ends with the success response carrying the computed
\* fraud_probability and decision.
C2_ResponseDespiteLogFailure ==
    \A r \in Reqs :
        (pc[r] \in Terminal /\ Decided(r)) =>
            /\ IsSuccess(response[r])
            /\ response[r].decision = decision[r]
            /\ response[r].fraud_probability = Round6(fraud_probability[r])

\* C4: with concurrent requests starting without a log file (and no append
\* failing), the log never holds a duplicated, a missing or a misplaced header:
\* a non-empty log has exactly one header row, and it is the first row.
C4_SingleLeadingHeader ==
    (\A r \in Reqs : ~AppendFailed(r)) =>
        (log # <<>> =>
            /\ IsHeader(log[1])
            /\ Len(HeaderRows(log)) = 1)

C9_FailedBeforeDecisionNotLogged ==
    /\ \A r \in Reqs :
          (pc[r] = "FAILED" /\ ~Decided(r)) =>
              \A i \in DOMAIN log : log[i].by # r
    /\ Len(DataRows(log)) =
          Cardinality({r \in Reqs : pc[r] \in {"LOGGED", "RESPONDED"}})

\* one request failed validation or scoring after another one was logged
C9_Witness ==
    \E r, q \in Reqs :
        /\ pc[r] = "FAILED" /\ ~Decided(r) /\ IsError(response[r])
        /\ pc[q] = "RESPONDED"
        /\ q < r
        /\ Len(log) = 2

\* C10: a request that has ended holds exactly one of two outcomes: a success
\* response with a fraud_probability and the decision the policy gives for
\* the request's score, or an error response holding only an error; a request
\* that has not ended holds no response, and a failed one never a decision.
C10_OneOutcome ==
    \A r \in Reqs :
        /\ pc[r] = "RESPONDED" =>
              /\ IsSuccess(response[r])
              /\ response[r].fraud_probability = Round6(fraud_probability[r])
              /\ response[r].decision \in Decisions
              /\ response[r].decision = "BLOCK" <=>
                    fraud_probability[r] >= BLOCK_THRESHOLD
              /\ response[r].decision = "REVIEW" <=>
                    (REVIEW_THRESHOLD <= fraud_probability[r]
                        /\ fraud_probability[r] < BLOCK_THRESHOLD)
              /\ response[r].decision = "ALLOW" <=>
                    fraud_probability[r] < REVIEW_THRESHOLD
        /\ pc[r] = "FAILED" => IsError(response[r])
        /\ pc[r] \notin Terminal => DOMAIN response[r] = {}

\* one request was answered REVIEW on the review threshold, another one failed
C10_Witness ==
    \E r, q \in Reqs :
        /\ pc[r] = "RESPONDED"
        /\ fraud_probability[r] = REVIEW_THRESHOLD
        /\ response[r].decision = "REVIEW"
        /\ pc[q] = "FAILED"
        /\ response[q].error.msg = "Missing features"

----------------------------------------------------------------------------
(* Claims about the start-up, /health and the log as a whole, checked under
   ServiceSpec *)

\* the steps of a /health call: a response appears
HealthStep == health' # health /\ health' # <<>>

\* C11: the service accepts /predict or /health requests only in the serving
\* state, and it is in the serving state only when the model and the feature
\* schema were loaded from readable artifacts and the thresholds satisfy
\* 0 <= review_threshold < block_threshold <= 1.
C11_ServingOnlyWhenConfigured ==
    /\ service.pc = "serving" =>
          /\ service.model_file /\ service.model
          /\ service.feature_file /\ service.features
          /\ 0 <= REVIEW_THRESHOLD
          /\ REVIEW_THRESHOLD < BLOCK_THRESHOLD
          /\ BLOCK_THRESHOLD <= One
    /\ ((\E r \in Reqs : pc[r] # "idle") \/ health # <<>>) =>
          service.pc = "serving"

\* the import ended and the service has answered a request and a probe
C11_Witness ==
    /\ service.pc = "serving"
    /\ service.model /\ service.features
    /\ \E r \in Reqs : pc[r] = "RESPONDED"
    /\ health # <<>>

\* C12: a /health call changes nothing but its own response (the audit log,
\* the start-up state and every request stay as they were) and returns status
\* OK, model_loaded true and the two thresholds at which make_decision
\* changes its result.
C12_HealthReadOnly ==
    [][HealthStep =>
        /\ Len(health') = 1
        /\ health'[1].status = "OK"
        /\ health'[1].model_loaded = TRUE
        /\ make_decision(health'[1].review_threshold) = "REVIEW"
        /\ make_decision(health'[1].review_threshold - 1) = "ALLOW"
        /\ make_decision(health'[1].block_threshold) = "BLOCK"
        /\ make_decision(health'[1].block_threshold - 1) = "REVIEW"
        /\ UNCHANGED <<pc, features, X, fraud_probability, decision,
                       write_header, f, response, log_exists, log, clock,
                       service, scorer_calls>>]_vars

\* a probe was answered while a request was between its open and its close
C12_Witness ==
    /\ health # <<>>
    /\ \E r \in Reqs : pc[r] = "log_close"
    /\ \E q \in Reqs : pc[q] = "RESPONDED"
    /\ log # <<>>

\* C15: over every step of the service the log before the step is a prefix of
\* the log after it, and the file once created stays: no row that was written
\* is changed, reordered or removed.
C15_AppendOnly ==
    [][/\ Len(log) <= Len(log')
       /\ SubSeq(log', 1, Len(log)) = log
       /\ log_exists => log_exists']_vars

\* three rows were written, by two calls, around a call that failed
C15_Witness ==
    /\ Len(log) = 3
    /\ \E r \in Reqs : pc[r] = "FAILED"
    /\ Cardinality({r \in Reqs : pc[r] = "RESPONDED"}) = 2

----------------------------------------------------------------------------
(* Claims about the course of a request, checked under Spec *)

\* the state of section 4.5 a request is in: inside log_transaction it is
\* still DECIDED
Stage(q) ==
    IF q \in {"log_open", "log_write", "log_close"} THEN "DECIDED" ELSE q

StageOrder ==
    {<<"idle", "RECEIVED">>, <<"RECEIVED", "VALIDATED">>,
     <<"VALIDATED", "SCORED">>, <<"SCORED", "DECIDED">>,
     <<"DECIDED", "LOGGED">>, <<"LOGGED", "RESPONDED">>}

EarlyExit ==
    {<<q, "FAILED">> : q \in {"RECEIVED", "VALIDATED", "SCORED", "DECIDED", "LOGGED"}}

\* C13: a request changes state only along RECEIVED, VALIDATED, SCORED,
\* DECIDED, LOGGED, RESPONDED or by early exit to FAILED; the scorer is
\* called only once validation succeeded, rows are appended for a request only
\* once its decision was computed, and the success response is returned only
\* from LOGGED, after the append was attempted.
C13_StateOrder ==
    [][\A r \in Reqs :
        /\ \/ Stage(pc'[r]) = Stage(pc[r])
           \/ <<Stage(pc[r]), Stage(pc'[r])>> \in StageOrder \cup EarlyExit
        /\ scorer_calls'[r] # scorer_calls[r] =>
              (pc[r] = "VALIDATED" /\ DOMAIN X[r] = DOMAIN FEATURE_LIST)
        /\ (\E i \in (Len(log) + 1)..Len(log') : log'[i].by = r) =>
              (Stage(pc[r]) = "DECIDED" /\ decision[r] \in Decisions)
        /\ (pc'[r] = "RESPONDED" /\ pc[r] # "RESPONDED") =>
              (pc[r] = "LOGGED" /\ \E i \in DOMAIN log : log[i].by = r)]_vars

\* one request went through every state, another left after the scorer failed
C13_Witness ==
    \E r, q \in Reqs :
        /\ pc[r] = "RESPONDED"
        /\ pc[q] = "FAILED" /\ scorer_calls[q] = 1 /\ decision[q] = NoDecision

\* C14: with a clock that never goes backwards, the timestamps of the data
\* rows in log order are non-decreasing under every interleaving.
C14_TimestampsNonDecreasing ==
    \A i, j \in DOMAIN log :
        (i < j /\ IsData(log[i]) /\ IsData(log[j])) =>
            log[i].timestamp <= log[j].timestamp

\* C17: the scorer is invoked at most once per request: not at all up to and
\* including a failed validation, exactly once from then on; a scorer failure
\* ends the request in FAILED with the failure in the response.
C17_ScorerAtMostOnce ==
    \A r \in Reqs :
        /\ scorer_calls[r] <= 1
        /\ pc[r] \in {"idle", "RECEIVED", "VALIDATED"} => scorer_calls[r] = 0
        /\ (pc[r] = "FAILED"
              /\ response[r].error.msg \in {"Missing features", "Unexpected features"})
                 => scorer_calls[r] = 0
        /\ (pc[r] \notin {"idle", "RECEIVED", "VALIDATED", "FAILED"}) =>
              (scorer_calls[r] = 1 /\ fraud_probability[r] \in Probs)
        /\ (scorer_calls[r] = 1 /\ fraud_probability[r] = NoProb) =>
              /\ pc[r] = "FAILED"
              /\ response[r].error.msg = "ScoringFailure"

\* one request ended on a scorer failure, another on a validation failure
C17_Witness ==
    \E r, q \in Reqs :
        /\ pc[r] = "FAILED" /\ response[r].error.msg = "ScoringFailure"
        /\ scorer_calls[r] = 1
        /\ pc[q] = "FAILED" /\ response[q].error.msg = "Unexpected features"
        /\ scorer_calls[q] = 0

----------------------------------------------------------------------------
(* Termination, checked under FairSpec *)

\* C16: every request that has arrived eventually reaches RESPONDED or FAILED,
\* whatever the other requests do.
C16_EveryRequestEnds ==
    \A r \in 1..NumReqs : (pc[r] = "RECEIVED") ~> (pc[r] \in Terminal)

\* both requests have ended, one of them after the other's append had failed
C16_Witness ==
    /\ \A r \in Reqs : pc[r] \in Terminal
    /\ \E r, q \in Reqs :
          /\ pc[r] = "RESPONDED"
          /\ pc[q] = "FAILED" /\ response[q].error.msg = "PersistenceError"

----------------------------------------------------------------------------
(* Claims about what is recorded, checked under Spec *)

\* the decision policy of section 4.3
PolicyOf(p) ==
    IF p >= BLOCK_THRESHOLD THEN "BLOCK"
    ELSE IF p >= REVIEW_THRESHOLD THEN "REVIEW"
    ELSE "ALLOW"

\* C18: for every request that returned a success response, the data row
\* appended for it holds the decision and the 6-decimal probability of the
\* response.
C18_RowMatchesResponse ==
    \A r \in Reqs :
        pc[r] = "RESPONDED" =>
            /\ \E i \in DOMAIN log : IsData(log[i]) /\ log[i].by = r
            /\ \A i \in DOMAIN log :
                  (IsData(log[i]) /\ log[i].by = r) =>
                      /\ log[i].decision = response[r].decision
                      /\ log[i].fraud_probability = response[r].fraud_probability
                      /\ log[i].fraud_probability % 10 = 0

\* a request whose score has a seventh decimal was logged and answered
C18_Witness ==
    \E r \in Reqs :
        /\ pc[r] = "RESPONDED"
        /\ fraud_probability[r] = 9929996
        /\ response[r].fraud_probability = 9930000
        /\ \E i \in DOMAIN log : IsData(log[i]) /\ log[i].by = r

\* C19 as stated: the decision of every data row and of every success
\* response is the policy applied to its own recorded, rounded probability.
C19_SelfConsistent ==
    /\ \A i \in DOMAIN log :
          IsData(log[i]) => log[i].decision = PolicyOf(log[i].fraud_probability)
    /\ \A r \in Reqs :
          pc[r] = "RESPONDED" =>
              response[r].decision = PolicyOf(response[r].fraud_probability)

\* C19 amended: the decision of every data row and of every success response
\* is the policy applied to the request's unrounded score; it differs from
\* the policy applied to the recorded probability only when rounding moved
\* a score below a threshold onto that threshold, and then it is the decision
\* below that threshold.
C19_ConsistentUpToRounding ==
    /\ \A i \in DOMAIN log :
          IsData(log[i]) =>
              LET p == fraud_probability[log[i].by]
                  rec == log[i].fraud_probability
              IN  /\ rec = Round6(p)
                  /\ log[i].decision = PolicyOf(p)
                  /\ log[i].decision # PolicyOf(rec) =>
                        /\ rec \in {REVIEW_THRESHOLD, BLOCK_THRESHOLD}
                        /\ p < rec
                        /\ log[i].decision = PolicyOf(rec - 1)
    /\ \A r \in Reqs :
          pc[r] = "RESPONDED" =>
              LET p == fraud_probability[r]
                  rec == response[r].fraud_probability
              IN  /\ rec = Round6(p)
                  /\ response[r].decision = PolicyOf(p)
                  /\ response[r].decision # PolicyOf(rec) =>
                        /\ rec \in {REVIEW_THRESHOLD, BLOCK_THRESHOLD}
                        /\ p < rec
                        /\ response[r].decision = PolicyOf(rec - 1)

\* a score just below the block threshold was recorded as 0.993 with REVIEW
C19_Witness ==
    \E r \in Reqs :
        /\ pc[r] = "RESPONDED"
        /\ fraud_probability[r] < BLOCK_THRESHOLD
        /\ response[r].fraud_probability = BLOCK_THRESHOLD
        /\ response[r].decision = "REVIEW"
        /\ \E i \in DOMAIN log :
              /\ log[i].by = r /\ IsData(log[i])
              /\ log[i].fraud_probability = BLOCK_THRESHOLD
              /\ log[i].decision = "REVIEW"

====
